---- MODULE Spec2Model ----
(***************************************************************************)
(* Red Maker IoT backend (src/app.py): activation-code redemption and      *)
(* credential-authenticated telemetry ingestion over one shared SQLite     *)
(* store.  Every request handler runs in its own worker thread with its    *)
(* own session; a handler is a sequence of store interactions, and the     *)
(* steps of different workers interleave.  A query is one atomic read of   *)
(* the committed store; db.commit() flushes the pending INSERT/UPDATE      *)
(* statements and commits them as one transaction, or fails and is rolled  *)
(* back.                                                                   *)
(***************************************************************************)
EXTENDS Integers, Sequences, FiniteSets, TLC

VARIABLES codes, devices, sensor_data, clock, pc, req, loc, resp

vars == <<codes, devices, sensor_data, clock, pc, req, loc, resp>>

(***************************************************************************)
(* Bounds of the model.                                                    *)
(***************************************************************************)
MaxClock == 1
MaxReadings == 2
\* Largest clock value, in seconds, at which the panel is rendered.
MaxSeconds == 3700

Workers == {"w1", "w2"}
Macs == {"m1", "m2"}
Keys == {"k1", "k2"}
Temps == {21}
Hums == {55}

\* A code string is a sequence of characters.
RawCodes == {<<"a", "1">>, <<"A", "1">>, <<"B", "1">>, <<"c", "1">>}

Sites == {[sede_id |-> "S3", sede_nombre |-> "Site Three"]}

\* SQL NULL / Python None for a string column, and for a DateTime column.
NULL == "null"
NoTime == -1

(***************************************************************************)
(* str.upper()                                                             *)
(***************************************************************************)
UpperChar(ch) ==
    CASE ch = "a" -> "A"
      [] ch = "b" -> "B"
      [] ch = "c" -> "C"
      [] OTHER -> ch

\* Upper that leaves the string as it was written.
UpperAsIs(s) == s

Upper(s) == [i \in DOMAIN s |-> UpperChar(s[i])]

(***************************************************************************)
(* Tables.  A table is the sequence of its rows; the primary key id of a   *)
(* row is its index.                                                       *)
(***************************************************************************)
ActivationCode(code, sede_id, sede_nombre) ==
    [code |-> code, sede_id |-> sede_id, sede_nombre |-> sede_nombre,
     is_used |-> FALSE, used_by_mac |-> NULL, used_at |-> NoTime]

\* Device with the site id stored in place of the site name.
DeviceMisnamed(mac_address, sede_id, sede_nombre, api_key, now) ==
    [mac_address |-> mac_address, sede_id |-> sede_id,
     sede_nombre |-> sede_id, api_key |-> api_key,
     activated_at |-> now, last_seen |-> now]

Device(mac_address, sede_id, sede_nombre, api_key, now) ==
    [mac_address |-> mac_address, sede_id |-> sede_id,
     sede_nombre |-> sede_nombre, api_key |-> api_key,
     activated_at |-> now, last_seen |-> now]

\* SensorData that does not record the device.
SensorDataUnowned(mac_address, temperatura, humedad, now) ==
    [mac_address |-> NULL, temperatura |-> temperatura,
     humedad |-> humedad, timestamp |-> now]

SensorData(mac_address, temperatura, humedad, now) ==
    [mac_address |-> mac_address, temperatura |-> temperatura,
     humedad |-> humedad, timestamp |-> now]

\* init_database(): the sample codes, stored as written (already uppercase).
sample_codes ==
    << ActivationCode(<<"A", "1">>, "S1", "Site One"),
       ActivationCode(<<"B", "1">>, "S2", "Site Two") >>

\* query(...).filter(...).first(): the id of the first of the matching rows
\* ids, 0 (None) if there is none.
First(ids) ==
    IF ids = {} THEN 0 ELSE CHOOSE i \in ids : \A j \in ids : i <= j

\* FindCode with the filter left out: the first row of the table.
FindCodeUnfiltered(tbl, code) == First(DOMAIN tbl)

FindCode(tbl, code) ==
    First({i \in DOMAIN tbl : tbl[i].code = Upper(code)})

FindDeviceByMac(tbl, mac) ==
    First({i \in DOMAIN tbl : tbl[i].mac_address = mac})

\* FindDeviceByKey with the filter left out: the first device of the table.
FindDeviceByKeyAny(tbl, key) == First(DOMAIN tbl)

FindDeviceByKey(tbl, key) ==
    First({i \in DOMAIN tbl : tbl[i].api_key = key})

\* db.query(SensorData).count()
countReadings == Len(sensor_data)


(***************************************************************************)
(* Requests, handler locals and responses.                                 *)
(***************************************************************************)
NoReq == [op |-> "none", code |-> <<>>, mac_address |-> NULL,
          x_api_key |-> NULL, temperatura |-> 0, humedad |-> 0,
          sede_id |-> NULL, sede_nombre |-> NULL]

\* activation / device: id of the row the session loaded (0: none);
\* api_key: generated key; used_at, last_seen: values assigned on the loaded
\* objects; stamp: value of the datetime.utcnow column defaults at flush;
\* seen: last_seen of the devices the panel loaded.
NoLoc == [activation |-> 0, device |-> 0, api_key |-> NULL,
          used_at |-> NoTime, last_seen |-> NoTime, stamp |-> NoTime,
          seen |-> <<>>]

\* panel: the status badge of each device row of the rendered panel.
NoResp == [status |-> 0, msg |-> "", sede_id |-> NULL, sede_nombre |-> NULL,
           api_key |-> NULL, mac |-> NULL, code |-> <<>>, timestamp |-> NoTime,
           panel |-> <<>>]

HTTPException(status_code, msg, mac) ==
    [NoResp EXCEPT !.status = status_code, !.msg = msg, !.mac = mac]

\* Positions of a handler after it has loaded an unused activation code.
ActivatePcs == {"act_find_device", "act_prepare", "act_flush", "act_commit"}

Return(p, r) ==
    /\ pc' = [pc EXCEPT ![p] = "idle"]
    /\ loc' = [loc EXCEPT ![p] = NoLoc]
    /\ resp' = [resp EXCEPT ![p] = r]

Goto(p, label, l) ==
    /\ pc' = [pc EXCEPT ![p] = label]
    /\ loc' = [loc EXCEPT ![p] = l]
    /\ resp' = resp

(***************************************************************************)
(* The store: UNIQUE constraints and the effect of a flush.  A flush       *)
(* yields err = "" and the new tables, or the text of the exception.       *)
(***************************************************************************)
\* DeviceConflict with mac_address not declared UNIQUE.
DeviceConflictKeyOnly(ds, row) ==
    IF \E i \in DOMAIN ds : ds[i].api_key = row.api_key
    THEN "unique_api_key"
    ELSE ""

\* DeviceConflict with api_key not declared UNIQUE.
DeviceConflictMacOnly(ds, row) ==
    IF \E i \in DOMAIN ds : ds[i].mac_address = row.mac_address
    THEN "unique_mac"
    ELSE ""

\* devices.mac_address and devices.api_key are UNIQUE.
DeviceConflict(ds, row) ==
    IF \E i \in DOMAIN ds : ds[i].mac_address = row.mac_address
    THEN "unique_mac"
    ELSE IF \E i \in DOMAIN ds : ds[i].api_key = row.api_key
         THEN "unique_api_key"
         ELSE ""

\* activation_codes.code is UNIQUE.
CodeConflict(cs, row) ==
    IF \E i \in DOMAIN cs : cs[i].code = row.code THEN "unique_code" ELSE ""

\* MarkUsed with the used_at assignment forgotten.
MarkUsedNoTime(row, mac, now) ==
    [row EXCEPT !.is_used = TRUE, !.used_by_mac = mac]

\* activation.is_used = True; used_by_mac = mac; used_at = utcnow()
MarkUsed(row, mac, now) ==
    [row EXCEPT !.is_used = TRUE, !.used_by_mac = mac, !.used_at = now]

\* FlushActivate with the code update committed on its own, before the
\* device insert is attempted.
FlushActivatePartial(cs, ds, actid, dev, used_at) ==
    [err |-> DeviceConflict(ds, dev),
     codes |-> [cs EXCEPT ![actid] = MarkUsed(@, dev.mac_address, used_at)],
     devices |-> IF DeviceConflict(ds, dev) # "" THEN ds ELSE Append(ds, dev)]

\* db.add(device); activation.<...> = ...; db.commit()
\* INSERT INTO devices; UPDATE activation_codes SET ... WHERE id = actid.
FlushActivate(cs, ds, actid, dev, used_at) ==
    IF DeviceConflict(ds, dev) # ""
    THEN [err |-> DeviceConflict(ds, dev), codes |-> cs, devices |-> ds]
    ELSE [err |-> "",
          codes |-> [cs EXCEPT ![actid] = MarkUsed(@, dev.mac_address, used_at)],
          devices |-> Append(ds, dev)]

\* Touch that writes the activation time as well.
TouchActivation(row, now) ==
    [row EXCEPT !.last_seen = now, !.activated_at = now]

\* device.last_seen = datetime.utcnow()
Touch(row, now) == [row EXCEPT !.last_seen = now]

\* FlushIngest with the UPDATE applied to every device.
FlushIngestTouchAll(ds, rs, devid, reading, last_seen) ==
    [err |-> "",
     devices |-> [j \in DOMAIN ds |-> Touch(ds[j], last_seen)],
     sensor_data |-> Append(rs, reading)]

\* FlushIngest that keeps only the latest reading.
FlushIngestLatestOnly(ds, rs, devid, reading, last_seen) ==
    [err |-> "",
     devices |-> [ds EXCEPT ![devid] = Touch(@, last_seen)],
     sensor_data |-> <<reading>>]

\* db.add(sensor_data); device.last_seen = ...; db.commit()
\* INSERT INTO sensor_data; UPDATE devices SET last_seen WHERE id = devid.
FlushIngest(ds, rs, devid, reading, last_seen) ==
    [err |-> "",
     devices |-> [ds EXCEPT ![devid] = Touch(@, last_seen)],
     sensor_data |-> Append(rs, reading)]

\* db.add(code); db.commit()
FlushCreateCode(cs, row) ==
    IF CodeConflict(cs, row) # ""
    THEN [err |-> CodeConflict(cs, row), codes |-> cs]
    ELSE [err |-> "", codes |-> Append(cs, row)]

(***************************************************************************)
(* POST /api/activate                                                      *)
(***************************************************************************)
ActivateBegin(p, code, mac) ==
    /\ pc[p] = "idle"
    /\ pc' = [pc EXCEPT ![p] = "act_find_code"]
    /\ req' = [req EXCEPT ![p] = [NoReq EXCEPT !.op = "activate",
                                      !.code = code, !.mac_address = mac]]
    /\ resp' = [resp EXCEPT ![p] = NoResp]
    /\ UNCHANGED <<codes, devices, sensor_data, clock, loc>>

\* CheckCode without the is_used test.
CheckCodeIgnoringUse(cs, code) ==
    IF FindCode(cs, code) = 0
    THEN HTTPException(404, "code_not_found", NULL)
    ELSE NoResp

\* The outcome of the code lookup and its two checks.
CheckCode(cs, code) ==
    LET id == FindCode(cs, code) IN
    IF id = 0 THEN HTTPException(404, "code_not_found", NULL)
    ELSE IF cs[id].is_used
         THEN HTTPException(422, "code_used", cs[id].used_by_mac)
         ELSE NoResp

ActivateFindCode(p) ==
    /\ pc[p] = "act_find_code"
    /\ IF CheckCode(codes, req[p].code) # NoResp
       THEN Return(p, CheckCode(codes, req[p].code))
       ELSE Goto(p, "act_find_device",
                 [loc[p] EXCEPT !.activation = FindCode(codes, req[p].code)])
    /\ UNCHANGED <<codes, devices, sensor_data, clock, req>>

\* The response of the branch for a device that is already registered.
ExistingDevice(d) ==
    [NoResp EXCEPT !.status = 200, !.msg = "already_registered",
                   !.sede_id = d.sede_id, !.sede_nombre = d.sede_nombre,
                   !.api_key = d.api_key]

\* ActivateFindDevice consuming the presented code in the branch of a
\* device that is already registered.
ActivateFindDeviceConsuming(p) ==
    /\ pc[p] = "act_find_device"
    /\ LET id == FindDeviceByMac(devices, req[p].mac_address) IN
       IF id # 0
       THEN /\ Return(p, ExistingDevice(devices[id]))
            /\ codes' = [codes EXCEPT ![loc[p].activation] =
                            MarkUsed(@, req[p].mac_address, clock)]
       ELSE /\ Goto(p, "act_prepare", loc[p])
            /\ codes' = codes
    /\ UNCHANGED <<devices, sensor_data, clock, req>>

ActivateFindDevice(p) ==
    /\ pc[p] = "act_find_device"
    /\ LET id == FindDeviceByMac(devices, req[p].mac_address) IN
       IF id # 0
       THEN Return(p, ExistingDevice(devices[id]))
       ELSE Goto(p, "act_prepare", loc[p])
    /\ UNCHANGED <<codes, devices, sensor_data, clock, req>>

\* generate_api_key(), Device(...), db.add(device), the three assignments on
\* the activation object.
ActivatePrepare(p) ==
    /\ pc[p] = "act_prepare"
    /\ \E k \in Keys :
          Goto(p, "act_flush", [loc[p] EXCEPT !.api_key = k, !.used_at = clock])
    /\ UNCHANGED <<codes, devices, sensor_data, clock, req>>

\* db.commit() begins the flush: the column defaults are evaluated.
ActivateFlush(p) ==
    /\ pc[p] = "act_flush"
    /\ Goto(p, "act_commit", [loc[p] EXCEPT !.stamp = clock])
    /\ UNCHANGED <<codes, devices, sensor_data, clock, req>>

Activated(c, k) ==
    [NoResp EXCEPT !.status = 200, !.msg = "activated",
                   !.sede_id = c.sede_id, !.sede_nombre = c.sede_nombre,
                   !.api_key = k]

\* db.commit(): the statements run and the transaction commits, or an
\* exception is raised (a violated constraint, or the store fails: fail) and
\* db.rollback() discards every write of the session.
CommitActivate(cs, ds, actid, dev, used_at, fail) ==
    IF fail
    THEN [err |-> "store_failure", codes |-> cs, devices |-> ds]
    ELSE FlushActivate(cs, ds, actid, dev, used_at)

ActivateCommit(p) ==
    /\ pc[p] = "act_commit"
    /\ LET c == codes[loc[p].activation]
           dev == Device(req[p].mac_address, c.sede_id, c.sede_nombre,
                         loc[p].api_key, loc[p].stamp)
       IN \E fail \in BOOLEAN :
             LET r == CommitActivate(codes, devices, loc[p].activation, dev,
                                     loc[p].used_at, fail)
             IN /\ codes' = r.codes
                /\ devices' = r.devices
                /\ Return(p, IF r.err # ""
                             THEN HTTPException(500, r.err, NULL)
                             ELSE Activated(c, loc[p].api_key))
    /\ UNCHANGED <<sensor_data, clock, req>>

(***************************************************************************)
(* POST /api/updates                                                       *)
(***************************************************************************)
\* Values of the X-API-Key header: absent (None), empty, or a key.
Headers == Keys \cup {NULL, ""}

IngestPcs == {"ing_check", "ing_find", "ing_touch", "ing_flush", "ing_commit"}

\* Readings stored or about to be.
Pending == Len(sensor_data) + Cardinality({q \in Workers : pc[q] \in IngestPcs})

IngestBegin(p, key, t, h) ==
    /\ pc[p] = "idle"
    /\ Pending < MaxReadings
    /\ pc' = [pc EXCEPT ![p] = "ing_check"]
    /\ req' = [req EXCEPT ![p] = [NoReq EXCEPT !.op = "ingest",
                  !.x_api_key = key, !.temperatura = t, !.humedad = h]]
    /\ resp' = [resp EXCEPT ![p] = NoResp]
    /\ UNCHANGED <<codes, devices, sensor_data, clock, loc>>

\* if not x_api_key
KeyMissing(key) == key = NULL \/ key = ""

\* Unauthorized with another status for a key that matches no device.
UnauthorizedOrForbidden(msg) ==
    HTTPException(IF msg = "key_invalid" THEN 403 ELSE 401, msg, NULL)

\* raise HTTPException(status_code=401, detail=...)
Unauthorized(msg) == HTTPException(401, msg, NULL)

IngestCheckKey(p) ==
    /\ pc[p] = "ing_check"
    /\ IF KeyMissing(req[p].x_api_key)
       THEN Return(p, Unauthorized("key_required"))
       ELSE Goto(p, "ing_find", loc[p])
    /\ UNCHANGED <<codes, devices, sensor_data, clock, req>>

IngestFind(p) ==
    /\ pc[p] = "ing_find"
    /\ LET id == FindDeviceByKey(devices, req[p].x_api_key) IN
       IF id = 0
       THEN Return(p, Unauthorized("key_invalid"))
       ELSE Goto(p, "ing_touch", [loc[p] EXCEPT !.device = id])
    /\ UNCHANGED <<codes, devices, sensor_data, clock, req>>

\* SensorData(...), db.add(sensor_data), device.last_seen = datetime.utcnow()
IngestTouch(p) ==
    /\ pc[p] = "ing_touch"
    /\ Goto(p, "ing_flush", [loc[p] EXCEPT !.last_seen = clock])
    /\ UNCHANGED <<codes, devices, sensor_data, clock, req>>

\* db.commit() begins the flush: the timestamp default is evaluated.
IngestFlush(p) ==
    /\ pc[p] = "ing_flush"
    /\ Goto(p, "ing_commit", [loc[p] EXCEPT !.stamp = clock])
    /\ UNCHANGED <<codes, devices, sensor_data, clock, req>>

\* CommitIngest without the rollback: the reading inserted before the store
\* failed stays.
CommitIngestNoRollback(ds, rs, devid, reading, last_seen, fail) ==
    IF fail
    THEN [err |-> "store_failure", devices |-> ds,
          sensor_data |-> Append(rs, reading)]
    ELSE FlushIngest(ds, rs, devid, reading, last_seen)

CommitIngest(ds, rs, devid, reading, last_seen, fail) ==
    IF fail
    THEN [err |-> "store_failure", devices |-> ds, sensor_data |-> rs]
    ELSE FlushIngest(ds, rs, devid, reading, last_seen)

Received(d, now) ==
    [NoResp EXCEPT !.status = 200, !.msg = "received",
                   !.sede_nombre = d.sede_nombre, !.mac = d.mac_address,
                   !.timestamp = now]

IngestCommit(p) ==
    /\ pc[p] = "ing_commit"
    /\ LET d == devices[loc[p].device]
           reading == SensorData(d.mac_address, req[p].temperatura,
                                 req[p].humedad, loc[p].stamp)
       IN \E fail \in BOOLEAN :
             LET r == CommitIngest(devices, sensor_data, loc[p].device,
                                   reading, loc[p].last_seen, fail)
             IN /\ devices' = r.devices
                /\ sensor_data' = r.sensor_data
                /\ Return(p, IF r.err # ""
                             THEN HTTPException(500, r.err, NULL)
                             ELSE Received(d, clock))
    /\ UNCHANGED <<codes, clock, req>>

(***************************************************************************)
(* POST /api/activation-codes                                              *)
(***************************************************************************)
CreateCodeBegin(p, code, site) ==
    /\ pc[p] = "idle"
    /\ pc' = [pc EXCEPT ![p] = "cc_find"]
    /\ req' = [req EXCEPT ![p] = [NoReq EXCEPT !.op = "create_code",
                  !.code = code, !.sede_id = site.sede_id,
                  !.sede_nombre = site.sede_nombre]]
    /\ resp' = [resp EXCEPT ![p] = NoResp]
    /\ UNCHANGED <<codes, devices, sensor_data, clock, loc>>

CreateCodeFind(p) ==
    /\ pc[p] = "cc_find"
    /\ IF FindCode(codes, req[p].code) # 0
       THEN Return(p, HTTPException(409, "code_exists", NULL))
       ELSE Goto(p, "cc_commit", loc[p])
    /\ UNCHANGED <<codes, devices, sensor_data, clock, req>>

CommitCreateCode(cs, row, fail) ==
    IF fail
    THEN [err |-> "store_failure", codes |-> cs]
    ELSE FlushCreateCode(cs, row)

Created(c) ==
    [NoResp EXCEPT !.status = 200, !.msg = "created", !.code = c.code,
                   !.sede_nombre = c.sede_nombre]

CreateCodeCommit(p) ==
    /\ pc[p] = "cc_commit"
    /\ LET row == ActivationCode(Upper(req[p].code), req[p].sede_id,
                                 req[p].sede_nombre)
       IN \E fail \in BOOLEAN :
             LET r == CommitCreateCode(codes, row, fail)
             IN /\ codes' = r.codes
                /\ Return(p, IF r.err # ""
                             THEN HTTPException(500, r.err, NULL)
                             ELSE Created(row))
    /\ UNCHANGED <<devices, sensor_data, clock, req>>

(***************************************************************************)
(* GET /panel: the device rows and their status badge                      *)
(***************************************************************************)
OnlineSeconds == 600
OfflineSeconds == 3600

\* Status with the bounds included in the lower class.
StatusInclusive(time_diff) ==
    IF time_diff <= OnlineSeconds THEN "Online"
    ELSE IF time_diff <= OfflineSeconds THEN "Inactivo"
    ELSE "Offline"

\* time_diff = (datetime.utcnow() - device.last_seen).total_seconds()
Status(time_diff) ==
    IF time_diff < OnlineSeconds THEN "Online"
    ELSE IF time_diff < OfflineSeconds THEN "Inactivo"
    ELSE "Offline"

PanelBegin(p) ==
    /\ pc[p] = "idle"
    /\ pc' = [pc EXCEPT ![p] = "panel_query"]
    /\ req' = [req EXCEPT ![p] = [NoReq EXCEPT !.op = "panel"]]
    /\ resp' = [resp EXCEPT ![p] = NoResp]
    /\ UNCHANGED <<codes, devices, sensor_data, clock, loc>>

\* devices = db.query(Device).all()
PanelQuery(p) ==
    /\ pc[p] = "panel_query"
    /\ Goto(p, "panel_render",
            [loc[p] EXCEPT !.seen = [j \in DOMAIN devices |-> devices[j].last_seen]])
    /\ UNCHANGED <<codes, devices, sensor_data, clock, req>>

Panel(seen, now) ==
    [NoResp EXCEPT !.status = 200, !.msg = "panel",
                   !.panel = [j \in DOMAIN seen |-> Status(now - seen[j])]]

\* for device in devices: ... status = ...
PanelRender(p) ==
    /\ pc[p] = "panel_render"
    /\ Return(p, Panel(loc[p].seen, clock))
    /\ UNCHANGED <<codes, devices, sensor_data, clock, req>>

(***************************************************************************)
(* The clock read by datetime.utcnow()                                     *)
(***************************************************************************)
Tick ==
    /\ clock < MaxClock
    /\ clock' = clock + 1
    /\ UNCHANGED <<codes, devices, sensor_data, pc, req, loc, resp>>

(***************************************************************************)
(* Specifications                                                          *)
(***************************************************************************)
Init ==
    /\ codes = sample_codes
    /\ devices = <<>>
    /\ sensor_data = <<>>
    /\ clock = 0
    /\ pc = [p \in Workers |-> "idle"]
    /\ req = [p \in Workers |-> NoReq]
    /\ loc = [p \in Workers |-> NoLoc]
    /\ resp = [p \in Workers |-> NoResp]

BeginActivate(p) == \E c \in RawCodes, m \in Macs : ActivateBegin(p, c, m)

BeginIngest(p) ==
    \E k \in Headers, t \in Temps, h \in Hums : IngestBegin(p, k, t, h)

BeginCreateCode(p) ==
    \E c \in RawCodes, s \in Sites : CreateCodeBegin(p, c, s)

ActivateStep(p) ==
    \/ ActivateFindCode(p)
    \/ ActivateFindDevice(p)
    \/ ActivatePrepare(p)
    \/ ActivateFlush(p)
    \/ ActivateCommit(p)

IngestStep(p) ==
    \/ IngestCheckKey(p)
    \/ IngestFind(p)
    \/ IngestTouch(p)
    \/ IngestFlush(p)
    \/ IngestCommit(p)

CreateCodeStep(p) ==
    \/ CreateCodeFind(p)
    \/ CreateCodeCommit(p)

PanelStep(p) ==
    \/ PanelQuery(p)
    \/ PanelRender(p)

\* Activation and provisioning requests handled by concurrent workers.
Next ==
    \/ \E p \in Workers : BeginActivate(p)
    \/ \E p \in Workers : BeginCreateCode(p)
    \/ \E p \in Workers : ActivateStep(p)
    \/ \E p \in Workers : CreateCodeStep(p)

Spec == Init /\ [][Next]_vars

\* Telemetry requests handled by concurrent workers while the clock runs and
\* devices activate with the sample codes.
IngestNext ==
    \/ \E i \in DOMAIN sample_codes, m \in Macs :
          ActivateBegin("w1", sample_codes[i].code, m)
    \/ ActivateStep("w1")
    \/ \E p \in Workers : BeginIngest(p)
    \/ \E p \in Workers : IngestStep(p)
    \/ Tick

IngestSpec == Init /\ [][IngestNext]_vars

\* One request at a time, of any kind: a single worker handles them all.
SeqNext ==
    \/ BeginActivate("w1")
    \/ BeginIngest("w1")
    \/ BeginCreateCode("w1")
    \/ ActivateStep("w1")
    \/ IngestStep("w1")
    \/ CreateCodeStep("w1")
    \/ PanelBegin("w1")
    \/ PanelStep("w1")
    \/ Tick

SeqSpec == Init /\ [][SeqNext]_vars

\* The panel rendered any number of seconds after device m1, activated at
\* second 0 with the first sample code, was last seen.
StatusInit ==
    /\ codes = [sample_codes EXCEPT ![1] = MarkUsed(@, "m1", 0)]
    /\ devices = << Device("m1", sample_codes[1].sede_id,
                           sample_codes[1].sede_nombre, "k1", 0) >>
    /\ sensor_data = <<>>
    /\ clock \in 0..MaxSeconds
    /\ pc = [p \in Workers |-> "idle"]
    /\ req = [p \in Workers |-> NoReq]
    /\ loc = [p \in Workers |-> NoLoc]
    /\ resp = [p \in Workers |-> NoResp]

StatusNext ==
    \/ \E p \in Workers : PanelBegin(p)
    \/ \E p \in Workers : PanelStep(p)

StatusSpec == StatusInit /\ [][StatusNext]_vars

(***************************************************************************)
(* Properties                                                              *)
(***************************************************************************)
\* The step in which worker p answers its request.
Completes(p) == pc[p] # "idle" /\ pc'[p] = "idle"

HasDevice(ds, mac) == \E j \in DOMAIN ds : ds[j].mac_address = mac

\* Rows of the stored code that the request's code names.
Named(cs, code) == {i \in DOMAIN cs : cs[i].code = Upper(code)}

\* Failures of the store or of the credential issuer, which no request
\* controls.
Unlucky(r) == r.msg \in {"store_failure", "unique_api_key"}

\* C1: requests handled one at a time.  activate(c, m) with c unused and m
\* without a device succeeds (unless the store fails or the issued key
\* collides), creates the device m and marks c used by m, leaving every other
\* code alone; activate(c, m2) with c used by m, m2 # m and m2 without a
\* device fails with 422 naming m and changes nothing.
C1_ConsumesOnce ==
    [][\A p \in Workers :
        (Completes(p) /\ req[p].op = "activate"
                      /\ ~HasDevice(devices, req[p].mac_address)) =>
          \A i \in Named(codes, req[p].code) :
            /\ (~codes[i].is_used /\ ~Unlucky(resp'[p])) =>
                  /\ resp'[p].status = 200
                  /\ resp'[p].msg = "activated"
                  /\ Len(devices') = Len(devices) + 1
                  /\ \A j \in DOMAIN devices : devices'[j] = devices[j]
                  /\ devices'[Len(devices')].mac_address = req[p].mac_address
                  /\ devices'[Len(devices')].api_key = resp'[p].api_key
                  /\ DOMAIN codes' = DOMAIN codes
                  /\ codes'[i].is_used
                  /\ codes'[i].used_by_mac = req[p].mac_address
                  /\ \A k \in DOMAIN codes \ {i} : codes'[k] = codes[k]
                  /\ sensor_data' = sensor_data
            /\ (codes[i].is_used /\ codes[i].used_by_mac # req[p].mac_address) =>
                  /\ resp'[p].status = 422
                  /\ resp'[p].mac = codes[i].used_by_mac
                  /\ UNCHANGED <<codes, devices, sensor_data>>
      ]_vars

\* A second identity was refused with the name of the first.
C1_Witness ==
    \E p \in Workers :
        /\ pc[p] = "idle"
        /\ req[p].op = "activate"
        /\ resp[p].status = 422
        /\ resp[p].mac # req[p].mac_address
        /\ HasDevice(devices, resp[p].mac)
        /\ ~HasDevice(devices, req[p].mac_address)

\* C2: activate with the identity of an existing device and any existing
\* code, used or not, succeeds and returns the device's stored credential.
C2_Idempotent ==
    [][\A p \in Workers :
        (Completes(p) /\ req[p].op = "activate"
                      /\ Named(codes, req[p].code) # {}) =>
          \A j \in DOMAIN devices :
            devices[j].mac_address = req[p].mac_address =>
               /\ resp'[p].status = 200
               /\ resp'[p].api_key = devices[j].api_key
      ]_vars


\* C3: two interleaved activate calls with the same unused code and the same
\* unregistered identity.  The call that finds, when it answers, that the
\* code it loaded unused has meanwhile been consumed by its own identity
\* answers with the existing device's credential (unless the store fails).
C3_LoserSeesExistingDevice ==
    [][\A q \in Workers :
        (Completes(q) /\ pc[q] \in ActivatePcs /\ resp'[q].msg # "store_failure") =>
          \A i \in Named(codes, req[q].code) :
            (codes[i].is_used /\ codes[i].used_by_mac = req[q].mac_address) =>
               /\ resp'[q].status = 200
               /\ resp'[q].msg = "already_registered"
               /\ \E j \in DOMAIN devices :
                     /\ devices[j].mac_address = req[q].mac_address
                     /\ devices[j].api_key = resp'[q].api_key
      ]_vars

\* C4: at most one device is created through a given activation code: there
\* are never more devices than used codes.
C4_OneDevicePerCode ==
    Len(devices) <= Cardinality({i \in DOMAIN codes : codes[i].is_used})

\* C5: in every step, a device becomes visible exactly when a code becomes
\* used by that device's identity: each new device comes with a code row
\* written in the same step that is used and names the device, and each code
\* row written in a step comes with a new device that it names.
C5_AtomicActivation ==
    [][/\ DOMAIN devices \subseteq DOMAIN devices'
       /\ DOMAIN codes \subseteq DOMAIN codes'
       /\ \A j \in DOMAIN devices' \ DOMAIN devices :
             \E i \in DOMAIN codes :
                /\ codes'[i] # codes[i]
                /\ codes'[i].is_used
                /\ codes'[i].used_by_mac = devices'[j].mac_address
       /\ \A i \in DOMAIN codes :
             codes'[i] # codes[i] =>
                \E j \in DOMAIN devices' \ DOMAIN devices :
                   /\ codes'[i].is_used
                   /\ codes'[i].used_by_mac = devices'[j].mac_address
      ]_vars

\* An activation was committed, and another one was rolled back because its
\* device insert was rejected.
C5_Witness ==
    \E p, q \in Workers :
        /\ pc[p] = "idle" /\ resp[p].msg = "activated"
        /\ pc[q] = "idle" /\ resp[q].status = 500 /\ resp[q].msg # "store_failure"
        /\ \E i \in DOMAIN codes, j \in DOMAIN devices :
              /\ codes[i].is_used
              /\ codes[i].used_by_mac = devices[j].mac_address
              /\ devices[j].api_key = resp[p].api_key

\* C6: a successful ingest with the credential of device d appends exactly
\* one reading, owned by d with the supplied temperature and humidity, so
\* that countReadings grows by one; it writes d's last_seen and nothing else.
C6_IngestAppendsOne ==
    [][\A p \in Workers :
        (Completes(p) /\ req[p].op = "ingest" /\ resp'[p].status = 200) =>
          \E d \in DOMAIN devices :
            /\ devices[d].api_key = req[p].x_api_key
            /\ Len(sensor_data') = countReadings + 1
            /\ \A k \in DOMAIN sensor_data : sensor_data'[k] = sensor_data[k]
            /\ sensor_data'[Len(sensor_data')].mac_address = devices[d].mac_address
            /\ sensor_data'[Len(sensor_data')].temperatura = req[p].temperatura
            /\ sensor_data'[Len(sensor_data')].humedad = req[p].humedad
            /\ devices'[d].last_seen \in 0..clock
            /\ devices' = [devices EXCEPT ![d].last_seen = devices'[d].last_seen]
            /\ codes' = codes
            /\ resp'[p].mac = devices[d].mac_address
      ]_vars

\* A reading was stored for one device while another device exists whose
\* last_seen differs from the one written.
C6_Witness ==
    \E p \in Workers, d, e \in DOMAIN devices :
        /\ pc[p] = "idle" /\ req[p].op = "ingest" /\ resp[p].status = 200
        /\ devices[d].api_key = req[p].x_api_key
        /\ e # d
        /\ devices[e].last_seen # devices[d].last_seen
        /\ \E k \in DOMAIN sensor_data :
              /\ sensor_data[k].mac_address = devices[d].mac_address
              /\ sensor_data[k].temperatura = req[p].temperatura
              /\ sensor_data[k].humedad = req[p].humedad

\* C7: ingest with a missing or empty credential, and ingest with a
\* credential that no device holds, both answer 401 and write nothing.
C7_Unauthenticated ==
    [][\A p \in Workers :
        (Completes(p) /\ req[p].op = "ingest"
            /\ \/ req[p].x_api_key \in {NULL, ""}
               \/ \A d \in DOMAIN devices : devices[d].api_key # req[p].x_api_key) =>
          /\ resp'[p].status = 401
          /\ UNCHANGED <<codes, devices, sensor_data>>
      ]_vars

\* One request was refused for its empty credential and another for its
\* unknown one, while a device exists.
C7_Witness ==
    \E p, q \in Workers :
        /\ pc[p] = "idle" /\ req[p].op = "ingest" /\ req[p].x_api_key = ""
        /\ resp[p].status = 401
        /\ pc[q] = "idle" /\ req[q].op = "ingest" /\ req[q].x_api_key \in Keys
        /\ resp[q].status = 401
        /\ devices # <<>>

\* C8: activate with a code whose uppercase form matches no stored code
\* answers 404, whatever the identity, and writes nothing.
C8_UnknownCode ==
    [][\A p \in Workers :
        (Completes(p) /\ req[p].op = "activate" /\ Named(codes, req[p].code) = {}) =>
          /\ resp'[p].status = 404
          /\ UNCHANGED <<codes, devices, sensor_data>>
      ]_vars

\* A registered identity and an unregistered one were both answered 404.
C8_Witness ==
    \E p, q \in Workers :
        /\ pc[p] = "idle" /\ req[p].op = "activate" /\ resp[p].status = 404
        /\ HasDevice(devices, req[p].mac_address)
        /\ pc[q] = "idle" /\ req[q].op = "activate" /\ resp[q].status = 404
        /\ ~HasDevice(devices, req[q].mac_address)

\* C9: for every activation code, is_used holds exactly when used_by_mac is
\* not null and exactly when used_at is not null.
C9_UsedFieldsAgree ==
    \A i \in DOMAIN codes :
        /\ codes[i].is_used <=> codes[i].used_by_mac # NULL
        /\ codes[i].is_used <=> codes[i].used_at # NoTime

\* A used sample code next to an unused code made by create_activation_code.
C9_Witness ==
    \E i, k \in DOMAIN codes :
        /\ codes[i].is_used
        /\ k > Len(sample_codes)
        /\ ~codes[k].is_used

\* C10: no two rows of the devices table have the same mac_address.
C10_OneDevicePerIdentity ==
    \A i, j \in DOMAIN devices :
        devices[i].mac_address = devices[j].mac_address => i = j

\* Two calls presented different unused codes for the same unregistered
\* identity: one created the device, the insert of the other was rejected.
C10_Witness ==
    \E p \in Workers, i \in DOMAIN codes :
        /\ pc[p] = "idle" /\ req[p].op = "activate"
        /\ resp[p].status = 500 /\ resp[p].msg = "unique_mac"
        /\ codes[i].is_used
        /\ codes[i].used_by_mac = req[p].mac_address
        /\ codes[i].code # Upper(req[p].code)
        /\ Named(codes, req[p].code) # {}
        /\ \A k \in Named(codes, req[p].code) : ~codes[k].is_used

\* C11: no two devices hold the same api_key, in the state before and after
\* every step; and an activation that reaches its commit with an issued key
\* that a device already holds is answered 500, creates no device and
\* changes no code.
C11_UniqueCredential ==
    [][/\ \A i, j \in DOMAIN devices :
             devices[i].api_key = devices[j].api_key => i = j
       /\ \A i, j \in DOMAIN devices' :
             devices'[i].api_key = devices'[j].api_key => i = j
       /\ \A p \in Workers :
             (Completes(p) /\ pc[p] = "act_commit"
                /\ \E j \in DOMAIN devices : devices[j].api_key = loc[p].api_key) =>
               /\ resp'[p].status = 500
               /\ UNCHANGED <<codes, devices, sensor_data>>
      ]_vars

\* An activation of an unregistered identity with an unused code was
\* rejected because the issued key is held by a device.
C11_Witness ==
    \E p \in Workers :
        /\ pc[p] = "idle" /\ req[p].op = "activate"
        /\ resp[p].status = 500 /\ resp[p].msg = "unique_api_key"
        /\ devices # <<>>
        /\ ~HasDevice(devices, req[p].mac_address)
        /\ \A i \in Named(codes, req[p].code) : ~codes[i].is_used

\* C12: the panel maps the seconds e elapsed since last_seen to Online when
\* e < 600, to Inactivo (stale) when 600 <= e < 3600 and to Offline when
\* e >= 3600, and rendering it writes nothing to the store.
C12_StatusDeriver ==
    [][\A p \in Workers :
        (Completes(p) /\ req[p].op = "panel") =>
          /\ UNCHANGED <<codes, devices, sensor_data>>
          /\ DOMAIN resp'[p].panel = DOMAIN devices
          /\ \A j \in DOMAIN devices :
                LET e == clock - devices[j].last_seen IN
                /\ (e < 600) => resp'[p].panel[j] = "Online"
                /\ (600 <= e /\ e < 3600) => resp'[p].panel[j] = "Inactivo"
                /\ (e >= 3600) => resp'[p].panel[j] = "Offline"
      ]_vars

\* One panel was rendered 600 seconds after the device was last seen and
\* shows it stale.
C12_Witness ==
    \E p \in Workers :
        /\ pc[p] = "idle" /\ req[p].op = "panel"
        /\ clock - devices[1].last_seen = 600
        /\ resp[p].panel = << "Inactivo" >>

\* C13: createCode with a code whose uppercase form is already stored
\* answers 409 (unless the store fails) and leaves the codes unchanged, also
\* when the code was stored by a call that overlaps this one.
C13_CreateConflict ==
    [][\A p \in Workers :
        (Completes(p) /\ req[p].op = "create_code"
            /\ Named(codes, req[p].code) # {}
            /\ resp'[p].msg # "store_failure") =>
          /\ resp'[p].status = 409
          /\ codes' = codes
      ]_vars

\* C14: an activate call that answers from the branch of a device that is
\* already registered writes nothing: every code row, the presented one
\* with its null used_by_mac and used_at included, and every device row are
\* as before, and the answer carries the device's stored site and key.
C14_ExistingDeviceBranch ==
    [][\A p \in Workers :
        (Completes(p) /\ req[p].op = "activate"
            /\ resp'[p].msg = "already_registered") =>
          /\ UNCHANGED <<codes, devices, sensor_data>>
          /\ \A i \in DOMAIN codes :
                ~codes[i].is_used =>
                   /\ ~codes'[i].is_used
                   /\ codes'[i].used_by_mac = NULL
                   /\ codes'[i].used_at = NoTime
          /\ \E j \in DOMAIN devices' :
                /\ devices'[j].mac_address = req[p].mac_address
                /\ devices'[j].api_key = resp'[p].api_key
                /\ devices'[j].sede_id = resp'[p].sede_id
                /\ devices'[j].sede_nombre = resp'[p].sede_nombre
      ]_vars

\* A registered identity presented an unused code, which is still unused.
C14_Witness ==
    \E p \in Workers :
        /\ pc[p] = "idle" /\ req[p].op = "activate"
        /\ resp[p].msg = "already_registered"
        /\ HasDevice(devices, req[p].mac_address)
        /\ Named(codes, req[p].code) # {}
        /\ \A i \in Named(codes, req[p].code) :
              ~codes[i].is_used /\ codes[i].used_by_mac = NULL

\* C15: after a successful ingest, the timestamp of the reading it appended
\* equals the last_seen it stored on the device.
C15_SameTimestamp ==
    [][\A p \in Workers :
        (Completes(p) /\ req[p].op = "ingest" /\ resp'[p].status = 200) =>
          \A d \in DOMAIN devices' :
            devices'[d].api_key = req[p].x_api_key =>
               sensor_data'[Len(sensor_data')].timestamp = devices'[d].last_seen
      ]_vars

\* C16: a used activation code stays used and keeps its used_by_mac and
\* used_at in every later step.
C16_UsedOnce ==
    [][\A i \in DOMAIN codes :
        codes[i].is_used =>
           /\ i \in DOMAIN codes'
           /\ codes'[i].is_used
           /\ codes'[i].used_by_mac = codes[i].used_by_mac
           /\ codes'[i].used_at = codes[i].used_at
      ]_vars

\* C17: every used activation code names, through used_by_mac, a device
\* that exists and has the code's sede_id and sede_nombre.
C17_UsedCodeHasDevice ==
    \A i \in DOMAIN codes :
        codes[i].is_used =>
           \E j \in DOMAIN devices :
              /\ devices[j].mac_address = codes[i].used_by_mac
              /\ devices[j].sede_id = codes[i].sede_id
              /\ devices[j].sede_nombre = codes[i].sede_nombre

\* Two codes of different sites are used, by different devices.
C17_Witness ==
    \E i, k \in DOMAIN codes :
        /\ codes[i].is_used /\ codes[k].is_used
        /\ codes[i].sede_id # codes[k].sede_id
        /\ codes[i].used_by_mac # codes[k].used_by_mac
        /\ Len(devices) = 2

\* C18: no step removes a device or changes its mac_address, sede_id,
\* sede_nombre, api_key or activated_at; a step that changes a device row
\* is the answer of a successful ingest made with that device's key.
C18_DeviceImmutable ==
    [][\A j \in DOMAIN devices :
        /\ j \in DOMAIN devices'
        /\ devices'[j].mac_address = devices[j].mac_address
        /\ devices'[j].sede_id = devices[j].sede_id
        /\ devices'[j].sede_nombre = devices[j].sede_nombre
        /\ devices'[j].api_key = devices[j].api_key
        /\ devices'[j].activated_at = devices[j].activated_at
        /\ devices'[j] # devices[j] =>
              \E p \in Workers :
                 /\ Completes(p) /\ req[p].op = "ingest"
                 /\ resp'[p].status = 200
                 /\ req[p].x_api_key = devices[j].api_key
      ]_vars

\* A device was seen after its activation, and codes were created, an
\* activation refused and the panel rendered meanwhile or since.
C18_Witness ==
    \E j \in DOMAIN devices :
        /\ devices[j].last_seen > devices[j].activated_at
        /\ Len(codes) > Len(sample_codes)
        /\ sensor_data # <<>>
        /\ pc["w1"] = "idle" /\ req["w1"].op = "panel"

\* C19: the commit of an activate or ingest call either succeeds, answers
\* 200 and changes the store, or fails, answers 500 and leaves codes,
\* devices and readings exactly as they were.
C19_RollbackOnFailure ==
    [][\A p \in Workers :
        (Completes(p) /\ pc[p] \in {"act_commit", "ing_commit"}) =>
          /\ resp'[p].status \in {200, 500}
          /\ resp'[p].status = 500 <=> UNCHANGED <<codes, devices, sensor_data>>
      ]_vars

\* An ingest with a valid key was answered 500 and no reading is stored.
C19_Witness ==
    \E p \in Workers :
        /\ pc[p] = "idle" /\ req[p].op = "ingest"
        /\ resp[p].status = 500
        /\ \E d \in DOMAIN devices : devices[d].api_key = req[p].x_api_key
        /\ sensor_data = <<>>

\* C20: reading timestamps are non-decreasing in insertion order.
C20_MonotoneTimestamps ==
    \A i, j \in DOMAIN sensor_data :
        i < j => sensor_data[i].timestamp <= sensor_data[j].timestamp

\* C21: no step removes a reading or changes a reading that exists, and a
\* reading is added, one at a time, only by an ingest call that answers 200.
C21_AppendOnly ==
    [][/\ Len(sensor_data') >= Len(sensor_data)
       /\ \A i \in DOMAIN sensor_data : sensor_data'[i] = sensor_data[i]
       /\ sensor_data' # sensor_data =>
             /\ Len(sensor_data') = Len(sensor_data) + 1
             /\ \E p \in Workers :
                   /\ Completes(p) /\ req[p].op = "ingest"
                   /\ resp'[p].status = 200
      ]_vars

\* Two readings are stored and an activation was answered after them.
C21_Witness ==
    /\ Len(sensor_data) = 2
    /\ \E p \in Workers :
          /\ pc[p] = "idle" /\ req[p].op = "activate"
          /\ resp[p].status = 200
          /\ \E d \in DOMAIN devices :
                /\ devices[d].mac_address = req[p].mac_address
                /\ devices[d].activated_at > sensor_data[2].timestamp

\* a and b are the same string up to the case of their letters.
SameLetters(a, b) ==
    /\ Len(a) = Len(b)
    /\ \A k \in DOMAIN a : UpperChar(a[k]) = UpperChar(b[k])

IsUpperCase(s) == \A k \in DOMAIN s : UpperChar(s[k]) = s[k]

\* C22: activate and createCode treat a code written in any letter case as
\* the stored code it spells: activate answers 404 exactly when no stored
\* code has the same letters, refuses a used one and consumes an unused one;
\* createCode answers 409 exactly when a stored code has the same letters;
\* and every stored code is in uppercase.
C22_CaseInsensitive ==
    [][/\ \A i \in DOMAIN codes' : IsUpperCase(codes'[i].code)
       /\ \A p \in Workers :
            LET stored == {i \in DOMAIN codes :
                              SameLetters(codes[i].code, req[p].code)}
            IN /\ (pc[p] = "act_find_code" /\ pc'[p] # pc[p]) =>
                    /\ resp'[p].status = 404 <=> stored = {}
                    /\ resp'[p].status = 422 <=>
                          \E i \in stored : codes[i].is_used
               /\ (pc[p] = "act_commit" /\ resp'[p].status = 200) =>
                    \E i \in stored :
                       /\ codes'[i].is_used
                       /\ codes'[i].used_by_mac = req[p].mac_address
               /\ (pc[p] = "cc_find" /\ pc'[p] # pc[p]) =>
                    (resp'[p].status = 409 <=> stored # {})
               /\ (pc[p] = "cc_commit" /\ resp'[p].status = 200) =>
                    /\ stored = {}
                    /\ Len(codes') = Len(codes) + 1
                    /\ SameLetters(codes'[Len(codes')].code, req[p].code)
      ]_vars

\* A code created as "c1" is stored as "C1", and the code "A1" was
\* consumed by an activation that spelled it "a1".
C22_Witness ==
    /\ \E i \in DOMAIN codes : codes[i].code = <<"C", "1">>
    /\ \E p \in Workers :
          /\ pc[p] = "idle" /\ req[p].op = "activate"
          /\ req[p].code = <<"a", "1">>
          /\ resp[p].status = 200 /\ resp[p].msg = "activated"

\* C23, as stated: every ingest call made with the credential of a device
\* succeeds.
C23_AlwaysSucceeds ==
    [][\A p \in Workers :
        (/\ Completes(p) /\ req[p].op = "ingest"
         /\ \E d \in DOMAIN devices : devices[d].api_key = req[p].x_api_key)
        => resp'[p].status = 200
      ]_vars

\* C23, amended: a successful activation answers with the credential stored
\* on the device of its identity, and only activations add devices; an
\* ingest call with the credential of a device is never refused: it answers
\* 200 and attributes its reading to that device, or its commit fails and it
\* answers 500; and an ingest call answers 200 only with the credential of
\* a device.
C23_CredentialStaysValid ==
    [][/\ \A p \in Workers :
            (Completes(p) /\ req[p].op = "activate"
                          /\ resp'[p].status = 200) =>
               \E d \in DOMAIN devices' :
                  /\ devices'[d].mac_address = req[p].mac_address
                  /\ devices'[d].api_key = resp'[p].api_key
       /\ \A d \in DOMAIN devices' \ DOMAIN devices :
            \E p \in Workers :
               /\ Completes(p) /\ req[p].op = "activate"
               /\ resp'[p].status = 200
               /\ resp'[p].api_key = devices'[d].api_key
       /\ \A p \in Workers :
            (Completes(p) /\ req[p].op = "ingest") =>
               LET ds == {d \in DOMAIN devices :
                             devices[d].api_key = req[p].x_api_key}
               IN /\ ds # {} =>
                       /\ resp'[p].status \in {200, 500}
                       /\ resp'[p].status = 500 =>
                             /\ resp'[p].msg = "store_failure"
                             /\ sensor_data' = sensor_data
                       /\ resp'[p].status = 200 =>
                             \E d \in ds :
                                /\ sensor_data' # <<>>
                                /\ sensor_data'[Len(sensor_data')].mac_address
                                      = devices[d].mac_address
                                /\ resp'[p].mac = devices[d].mac_address
                  /\ resp'[p].status = 200 => ds # {}
      ]_vars

\* The device activated first at second 0 has sent a reading at second 1,
\* after a second device was activated and a code created.
C23_Witness ==
    \E p \in Workers :
        /\ pc[p] = "idle" /\ req[p].op = "ingest" /\ resp[p].status = 200
        /\ Len(devices) = 2
        /\ devices[1].api_key = req[p].x_api_key
        /\ devices[1].activated_at = 0
        /\ devices[1].last_seen = 1
        /\ Len(codes) > Len(sample_codes)

\* C24: the last_seen of a device never decreases.
C24_LastSeenMonotone ==
    [][\A d \in DOMAIN devices :
          d \in DOMAIN devices' /\ devices'[d].last_seen >= devices[d].last_seen
      ]_vars

\* C25: the mac_address of every reading is the mac_address of a device.
C25_ReadingHasDevice ==
    \A i \in DOMAIN sensor_data :
        \E d \in DOMAIN devices :
            devices[d].mac_address = sensor_data[i].mac_address

\* Readings of two different devices are stored.
C25_Witness ==
    \E i, j \in DOMAIN sensor_data :
        sensor_data[i].mac_address # sensor_data[j].mac_address

====
